---- MODULE Spec2Model ----
(***************************************************************************)
(* A model of cartland/algorithms (python): the binary search tree of      *)
(* bst.py, the min/max heap of heap.py and the six sorters of sort.py.     *)
(*                                                                         *)
(* A tree is a value: None is the empty tuple and a BinaryTreeNode is the  *)
(* triple <<datum, left, right>>.  Every node of a BST is owned by exactly *)
(* one parent link, so the in-place updates of the code are modelled as    *)
(* rebuilding the path from the root to the updated node.                  *)
(***************************************************************************)
EXTENDS Integers, Sequences, FiniteSets, Bags, TLC

VARIABLES
  root,               \* BST.root
  call,               \* the last public BST call: <<name, argument>>
  prev,               \* BST.root as it was before the last call
  ret,                \* what the last BST call returned
  items,              \* Heap.items; items[i] is the python items[i], index 0 left out
  item_count,         \* Heap.item_count
  invalid_index_set,  \* Heap.invalid_index_set
  is_max_heap,        \* Heap.is_max_heap
  hcall,              \* the last public Heap call: <<name, argument>>
  hret,               \* what the last Heap call returned, or ValueError
  hprev,              \* <<items, item_count, invalid_index_set, live>> before the last call
  live,               \* bag of the items inserted and not yet popped
  data_input,         \* the sequence handed to Sorter.sort
  sorter,             \* the sorter that ran
  output              \* what sort returned

bstVars == <<root, call, prev, ret>>
heapVars == <<items, item_count, invalid_index_set, is_max_heap, hcall, hret, hprev, live>>
sortVars == <<data_input, sorter, output>>
vars == <<root, call, prev, ret, items, item_count, invalid_index_set, is_max_heap,
          hcall, hret, hprev, live, data_input, sorter, output>>

\* Bounds of the model.
MaxVal == 3
MaxNodes == 5
MaxItem == 2
MaxSlots == 3
MaxKey == 3
MaxLen == 4
MaxPasses == 4
MaxDistinct == 6
MaxDeepSlots == 4

Values == 1..MaxVal

Max(a, b) == IF a >= b THEN a ELSE b

(***************************************************************************)
(* bt.py: BinaryTreeNode                                                   *)
(***************************************************************************)
None == <<>>

BinaryTreeNode(d) == <<d, None, None>>

datum(n) == n[1]

left(n) == n[2]

right(n) == n[3]

SetLeft(n, l) == <<n[1], l, n[3]>>

SetRight(n, r) == <<n[1], n[2], r>>

(***************************************************************************)
(* bst.py: BST                                                             *)
(***************************************************************************)
RECURSIVE insert_node_Reversed(_, _)
\* insert_node with the comparison of line 59 turned round.
insert_node_Reversed(rt, new_node) ==
  IF new_node = None THEN rt
  ELSE IF rt = None THEN new_node
  ELSE IF datum(new_node) < datum(rt)
    THEN IF right(rt) = None
           THEN SetRight(rt, new_node)
           ELSE SetRight(rt, insert_node_Reversed(right(rt), new_node))
    ELSE IF left(rt) = None
           THEN SetLeft(rt, new_node)
           ELSE SetLeft(rt, insert_node_Reversed(left(rt), new_node))

RECURSIVE insert_node(_, _)
insert_node(rt, new_node) ==
  IF new_node = None THEN rt
  ELSE IF rt = None THEN new_node
  ELSE IF datum(rt) < datum(new_node)
    THEN IF right(rt) = None
           THEN SetRight(rt, new_node)
           ELSE SetRight(rt, insert_node(right(rt), new_node))
    ELSE IF left(rt) = None
           THEN SetLeft(rt, new_node)
           ELSE SetLeft(rt, insert_node(left(rt), new_node))

RECURSIVE find(_, _)
find(node, item) ==
  IF node = None THEN None
  ELSE IF datum(node) = item THEN node
  ELSE IF datum(node) < item THEN find(right(node), item)
  ELSE find(left(node), item)

\* Unlink with the two links of lines 138-141 exchanged.
Unlink_Swapped(parent, item) ==
  LET p1 == IF item < datum(parent) THEN SetRight(parent, None) ELSE parent
  IN IF datum(parent) < item THEN SetLeft(p1, None) ELSE p1

\* Lines 135-144 of delete_item for a matched node that has a parent: the
\* link to clear is chosen by comparing item with parent.datum, then the
\* right and the left subtree of the node are inserted below the parent.
Unlink(parent, item) ==
  LET p1 == IF item < datum(parent) THEN SetLeft(parent, None) ELSE parent
  IN IF datum(parent) < item THEN SetRight(p1, None) ELSE p1

\* Reattach without line 144: the left subtree is not inserted again.
Reattach_DropsLeft(parent, node) == insert_node(parent, right(node))

Reattach(parent, node) == insert_node(insert_node(parent, right(node)), left(node))

\* The walk of lines 122-133 below a node whose datum is not item; returns
\* the node with the subtree the walk went through updated.
RECURSIVE delete_below(_, _)
delete_below(parent, item) ==
  LET node == IF datum(parent) < item THEN right(parent) ELSE left(parent)
  IN IF node = None THEN parent
     ELSE IF datum(node) = item THEN Reattach(Unlink(parent, item), node)
     ELSE IF datum(parent) < item THEN SetRight(parent, delete_below(node, item))
     ELSE SetLeft(parent, delete_below(node, item))

\* delete_item returning None at line 133, where the item is not found.
delete_item_ReturnsNone(rt, item) ==
  IF rt = None THEN None
  ELSE IF datum(rt) = item THEN Reattach(None, rt)
  ELSE IF find(rt, item) = None THEN None
  ELSE delete_below(rt, item)

delete_item(rt, item) ==
  IF rt = None THEN None
  ELSE IF datum(rt) = item THEN Reattach(None, rt)
  ELSE delete_below(rt, item)

RECURSIVE node_depth(_)
\* node_depth following the left links only.
node_depth_LeftOnly(node) ==
  IF node = None THEN 0
  ELSE 1 + node_depth(left(node))

node_depth(node) ==
  IF node = None THEN 0
  ELSE 1 + Max(node_depth(left(node)), node_depth(right(node)))

\* rotate_left without line 203: the orphan is not attached again.
rotate_left_DropsOrphan(node) ==
  IF node = None THEN None
  ELSE IF right(node) = None THEN node
  ELSE LET new_root == right(node)
       IN SetLeft(new_root, SetRight(node, None))

rotate_left(node) ==
  IF node = None THEN None
  ELSE IF right(node) = None THEN node
  ELSE LET new_root == right(node)
           orphan == left(new_root)
       IN SetLeft(new_root, SetRight(node, orphan))

rotate_right(node) ==
  IF node = None THEN None
  ELSE IF left(node) = None THEN node
  ELSE LET new_root == left(node)
           orphan == right(new_root)
       IN SetRight(new_root, SetLeft(node, orphan))

\* What a call of balance_node yields when its while loop runs more than
\* MaxPasses passes at some node: the call is taken not to return.
Hang == <<"hang">>

RECURSIVE balance_node(_)
RECURSIVE balance_loop(_, _)
\* balance_loop with > for >= in the test of line 181.
balance_loop_StrictRight(node0, pass) ==
  IF pass > MaxPasses THEN Hang
  ELSE LET l == balance_node(left(node0))
           r == balance_node(right(node0))
           node == <<datum(node0), l, r>>
           left_depth == node_depth(left(node))
           right_depth == node_depth(right(node))
       IN IF l = Hang \/ r = Hang THEN Hang
          ELSE IF left_depth >= right_depth + 2
            THEN IF node_depth(right(left(node))) > node_depth(left(left(node)))
                   THEN node
                   ELSE balance_loop(rotate_right(node), pass + 1)
          ELSE IF right_depth > left_depth + 2
            THEN IF node_depth(left(right(node))) > node_depth(right(right(node)))
                   THEN node
                   ELSE balance_loop(rotate_left(node), pass + 1)
          ELSE node

\* balance_loop without lines 167-168: the children are not balanced.
balance_loop_SkipsChildren(node0, pass) ==
  IF pass > MaxPasses THEN Hang
  ELSE LET l == left(node0)
           r == right(node0)
           node == <<datum(node0), l, r>>
           left_depth == node_depth(left(node))
           right_depth == node_depth(right(node))
       IN IF l = Hang \/ r = Hang THEN Hang
          ELSE IF left_depth >= right_depth + 2
            THEN IF node_depth(right(left(node))) > node_depth(left(left(node)))
                   THEN node
                   ELSE balance_loop(rotate_right(node), pass + 1)
          ELSE IF right_depth >= left_depth + 2
            THEN IF node_depth(left(right(node))) > node_depth(right(right(node)))
                   THEN node
                   ELSE balance_loop(rotate_left(node), pass + 1)
          ELSE node

\* balance_loop without the test of line 184: a right-heavy node is rotated
\* whatever the depths below its right child, and the loop ends there.
balance_loop_NoInsideCheck(node0, pass) ==
  IF pass > MaxPasses THEN Hang
  ELSE LET l == balance_node(left(node0))
           r == balance_node(right(node0))
           node == <<datum(node0), l, r>>
           left_depth == node_depth(left(node))
           right_depth == node_depth(right(node))
       IN IF l = Hang \/ r = Hang THEN Hang
          ELSE IF left_depth >= right_depth + 2
            THEN IF node_depth(right(left(node))) > node_depth(left(left(node)))
                   THEN node
                   ELSE balance_loop(rotate_right(node), pass + 1)
          ELSE IF right_depth >= left_depth + 2
            THEN rotate_left(node)
          ELSE node

\* balance_node rotating at every depth difference of 2 or more, whatever
\* the inside and outside subtrees are.
balance_loop_AlwaysRotates(node0, pass) ==
  IF pass > MaxPasses THEN Hang
  ELSE LET l == balance_node(left(node0))
           r == balance_node(right(node0))
           node == <<datum(node0), l, r>>
           left_depth == node_depth(left(node))
           right_depth == node_depth(right(node))
       IN IF l = Hang \/ r = Hang THEN Hang
          ELSE IF left_depth >= right_depth + 2
            THEN balance_loop(rotate_right(node), pass + 1)
          ELSE IF right_depth >= left_depth + 2
            THEN balance_loop(rotate_left(node), pass + 1)
          ELSE node

\* The while loop of balance_node from its pass-th pass on.
balance_loop(node0, pass) ==
  IF pass > MaxPasses THEN Hang
  ELSE LET l == balance_node(left(node0))
           r == balance_node(right(node0))
           node == <<datum(node0), l, r>>
           left_depth == node_depth(left(node))
           right_depth == node_depth(right(node))
       IN IF l = Hang \/ r = Hang THEN Hang
          ELSE IF left_depth >= right_depth + 2
            THEN IF node_depth(right(left(node))) > node_depth(left(left(node)))
                   THEN node
                   ELSE balance_loop(rotate_right(node), pass + 1)
          ELSE IF right_depth >= left_depth + 2
            THEN IF node_depth(left(right(node))) > node_depth(right(right(node)))
                   THEN node
                   ELSE balance_loop(rotate_left(node), pass + 1)
          ELSE node

balance_node(node) == IF node = None THEN None ELSE balance_loop(node, 1)

RECURSIVE is_valid_node(_, _, _)
\* mn and mx are None or a value.
is_valid_node(node, mn, mx) ==
  IF node = None THEN TRUE
  ELSE IF mn # None /\ datum(node) < mn[1] THEN FALSE
  ELSE IF mx # None /\ datum(node) > mx[1] THEN FALSE
  ELSE IF ~is_valid_node(left(node), mn, <<datum(node)>>) THEN FALSE
  ELSE IF ~is_valid_node(right(node), <<datum(node)>>, mx) THEN FALSE
  ELSE TRUE

is_valid(rt) == is_valid_node(rt, None, None)

depth(rt) == node_depth(rt)

\* Helpers of the properties: the number of nodes, and the number of nodes
\* holding v, reachable from a node.
RECURSIVE Size(_)
Size(node) == IF node = None THEN 0 ELSE 1 + Size(left(node)) + Size(right(node))

RECURSIVE Occurrences(_, _)
Occurrences(node, v) ==
  IF node = None THEN 0
  ELSE (IF datum(node) = v THEN 1 ELSE 0) + Occurrences(left(node), v)
         + Occurrences(right(node), v)

RECURSIVE InOrder(_)
InOrder(node) ==
  IF node = None THEN <<>>
  ELSE InOrder(left(node)) \o <<datum(node)>> \o InOrder(right(node))

\* BST(): an empty tree; no heap in use and no sorter run.
BstInit ==
  /\ root = None
  /\ call = <<"init", 0>>
  /\ prev = None
  /\ ret = None
  /\ items = <<>>
  /\ item_count = 0
  /\ invalid_index_set = {}
  /\ is_max_heap = FALSE
  /\ hcall = <<"init", None>>
  /\ hret = <<"return", None>>
  /\ hprev = <<<<>>, 0, {}, EmptyBag>>
  /\ live = EmptyBag
  /\ data_input = <<>>
  /\ sorter = "none"
  /\ output = <<>>

Insert(v) ==
  /\ root' = insert_node(root, BinaryTreeNode(v))
  /\ call' = <<"insert", v>>
  /\ prev' = root
  /\ ret' = None
  /\ UNCHANGED <<heapVars, sortVars>>

Find(v) ==
  /\ ret' = find(root, v)
  /\ call' = <<"find", v>>
  /\ prev' = root
  /\ root' = root
  /\ UNCHANGED <<heapVars, sortVars>>

Delete(v) ==
  /\ root' = delete_item(root, v)
  /\ call' = <<"delete", v>>
  /\ prev' = root
  /\ ret' = None
  /\ UNCHANGED <<heapVars, sortVars>>

\* A balance() that does not return leaves no tree to look at: root is kept
\* and ret tells it.
Balance ==
  /\ root' = IF balance_node(root) = Hang THEN root ELSE balance_node(root)
  /\ call' = <<"balance", 0>>
  /\ prev' = root
  /\ ret' = IF balance_node(root) = Hang THEN Hang ELSE None
  /\ UNCHANGED <<heapVars, sortVars>>

BstNext ==
  \/ \E v \in Values : Size(root) < MaxNodes /\ Insert(v)
  \/ \E v \in Values : Find(v)
  \/ \E v \in Values : Delete(v)
  \/ Balance

\* The BST under any sequence of insert, find, delete and balance calls.
BstSpec == BstInit /\ [][BstNext]_vars

\* The first value TestBST.test_balance inserts.
FirstVal == 18

DistinctValues == FirstVal..(FirstVal + MaxDistinct - 1)

DistinctNext ==
  \/ \E v \in DistinctValues : Occurrences(root, v) = 0 /\ Insert(v)
  \/ \E v \in DistinctValues : Delete(v)
  \/ Balance

\* The BST when no value is inserted while a node holds it: the values of the
\* tree are pairwise distinct.
DistinctSpec == BstInit /\ [][DistinctNext]_vars

(***************************************************************************)
(* heap.py: Heap.  An item is <<key, tag>>: the comparisons of the code    *)
(* read the key alone, and the tag tells apart items that compare equal    *)
(* (in python 1, 1.0 and True do).                                         *)
(***************************************************************************)
Key(item) == item[1]

is_heap_order(max_heap, parent, child) ==
  IF max_heap THEN Key(parent) >= Key(child) ELSE Key(parent) <= Key(child)

\* len(self.items): index 0 is a slot of the python list.
len_items(its) == Len(its) + 1

\* The indices insert_at_next_index may return: the next index of the list
\* when no index is free, else whichever member set.pop() removes.
next_indices(its, inv) == IF Cardinality(inv) = 0 THEN {len_items(its)} ELSE inv

insert_at_next_index(its, inv, item, index) ==
  IF Cardinality(inv) = 0 THEN Append(its, item) ELSE [its EXCEPT ![index] = item]

RECURSIVE bubble_up(_, _, _)
\* The while loop of insert.
bubble_up(its, index, max_heap) ==
  IF index > 1
    THEN LET parent_index == index \div 2
         IN IF is_heap_order(max_heap, its[parent_index], its[index])
              THEN its
              ELSE bubble_up([its EXCEPT ![index] = its[parent_index],
                                         ![parent_index] = its[index]],
                             parent_index, max_heap)
    ELSE its

insert(its, inv, item, index, max_heap) ==
  bubble_up([insert_at_next_index(its, inv, item, index) EXCEPT ![index] = item],
            index, max_heap)

is_invalid_index(its, inv, index) ==
  IF index <= 0 THEN TRUE
  ELSE IF index >= len_items(its) THEN TRUE
  ELSE index \in inv

mark_invalid_index(inv, index) == inv \cup {index}

RECURSIVE bubble_down(_, _, _, _)
\* The while loop of pop, from index on: <<items, invalid_index_set>> at its return.
bubble_down(its, inv, index, max_heap) ==
  LET l == index * 2
      r == l + 1
  IN IF is_invalid_index(its, inv, l) /\ is_invalid_index(its, inv, r)
       THEN <<its, mark_invalid_index(inv, index)>>
     ELSE IF is_invalid_index(its, inv, r)
       THEN bubble_down([its EXCEPT ![index] = its[l]], inv, l, max_heap)
     ELSE IF is_invalid_index(its, inv, l)
       THEN bubble_down([its EXCEPT ![index] = its[r]], inv, r, max_heap)
     ELSE IF is_heap_order(max_heap, its[l], its[r])
       THEN bubble_down([its EXCEPT ![index] = its[l]], inv, l, max_heap)
     ELSE bubble_down([its EXCEPT ![index] = its[r]], inv, r, max_heap)

count == item_count

\* peek(): <<"return", item>>, or the exception raised; reading a list past
\* its end raises IndexError.
\* peek with the test of line 96 off by one.
peek_OffByOne(its, cnt) ==
  IF cnt < 0 THEN <<"ValueError", None>>
  ELSE IF 1 >= len_items(its) THEN <<"IndexError", None>>
  ELSE <<"return", its[1]>>

peek(its, cnt) ==
  IF cnt <= 0 THEN <<"ValueError", None>>
  ELSE IF 1 >= len_items(its) THEN <<"IndexError", None>>
  ELSE <<"return", its[1]>>

\* The items a caller inserts into the heap.
HeapItems == {<<k, 0>> : k \in 1..MaxItem}

HeapState == <<items, item_count, invalid_index_set, live>>

\* Heap() or Heap(max_heap=True); the tree stays empty and no sorter runs.
HeapInit ==
  /\ items = <<>>
  /\ item_count = 0
  /\ invalid_index_set = {}
  /\ is_max_heap \in BOOLEAN
  /\ hcall = <<"init", None>>
  /\ hret = <<"return", None>>
  /\ hprev = <<<<>>, 0, {}, EmptyBag>>
  /\ live = EmptyBag
  /\ root = None
  /\ call = <<"init", 0>>
  /\ prev = None
  /\ ret = None
  /\ data_input = <<>>
  /\ sorter = "none"
  /\ output = <<>>

HeapInsert(item, index) ==
  /\ index \in next_indices(items, invalid_index_set)
  /\ item_count' = item_count + 1
  /\ invalid_index_set' = invalid_index_set \ {index}
  /\ items' = insert(items, invalid_index_set, item, index, is_max_heap)
  /\ live' = live (+) SetToBag({item})
  /\ hcall' = <<"insert", item>>
  /\ hret' = <<"return", None>>
  /\ hprev' = HeapState
  /\ UNCHANGED <<is_max_heap, bstVars, sortVars>>

HeapPeek ==
  /\ hret' = peek(items, count)
  /\ hcall' = <<"peek", None>>
  /\ hprev' = HeapState
  /\ UNCHANGED <<items, item_count, invalid_index_set, is_max_heap, live>>
  /\ UNCHANGED <<bstVars, sortVars>>

HeapPop ==
  /\ hcall' = <<"pop", None>>
  /\ hprev' = HeapState
  /\ hret' = peek(items, count)
  /\ IF peek(items, count)[1] # "return"
       THEN UNCHANGED <<items, item_count, invalid_index_set, live>>
       ELSE LET walk == bubble_down(items, invalid_index_set, 1, is_max_heap)
            IN /\ item_count' = item_count - 1
               /\ items' = walk[1]
               /\ invalid_index_set' = walk[2]
               /\ live' = live (-) SetToBag({peek(items, count)[2]})
  /\ UNCHANGED <<is_max_heap, bstVars, sortVars>>

\* At most slots slots in use and at most slots items not yet popped.
Room(slots) == 1..(IF BagCardinality(live) < slots THEN slots ELSE 0)

HeapNext ==
  \/ \E item \in HeapItems : \E index \in Room(MaxSlots) : HeapInsert(item, index)
  \/ HeapPeek
  \/ HeapPop

\* A min or a max heap under any sequence of insert, peek and pop calls.
HeapSpec == HeapInit /\ [][HeapNext]_vars

DeepNext ==
  \/ \E item \in HeapItems : \E index \in Room(MaxDeepSlots) : HeapInsert(item, index)
  \/ HeapPeek
  \/ HeapPop

\* The same heap with room for a third level of slots.
DeepSpec == HeapInit /\ [][DeepNext]_vars

(***************************************************************************)
(* sort.py: the sorters.  data[i] of the code is data[i + 1] here; the     *)
(* loops keep the bounds of the code and shift the index where they read   *)
(* or write the list.                                                      *)
(***************************************************************************)
Lt(a, b) == Key(a) < Key(b)

Gt(a, b) == Key(a) > Key(b)

Swap(data, i, j) == [data EXCEPT ![i + 1] = data[j + 1], ![j + 1] = data[i + 1]]

RECURSIVE is_sorted_from(_, _, _)
\* The for loop of is_sorted from index i on, val being the item before.
is_sorted_from(data, i, val) ==
  IF i >= Len(data) THEN TRUE
  ELSE IF Gt(val, data[i + 1]) THEN FALSE
  ELSE is_sorted_from(data, i + 1, data[i + 1])

is_sorted(data) == IF Len(data) = 0 THEN TRUE ELSE is_sorted_from(data, 1, data[1])

RECURSIVE bubble_pass(_, _, _)
\* The for loop of BubbleSorter.sort from index i on: <<data, done>>.
bubble_pass(data, i, done) ==
  IF i >= Len(data) - 1 THEN <<data, done>>
  ELSE IF Gt(data[i + 1], data[i + 2])
    THEN bubble_pass(Swap(data, i, i + 1), i + 1, FALSE)
    ELSE bubble_pass(data, i + 1, done)

RECURSIVE BubbleSorter(_)
BubbleSorter(data) ==
  LET pass == bubble_pass(data, 0, TRUE)
  IN IF pass[2] THEN pass[1] ELSE BubbleSorter(pass[1])

RECURSIVE insertion_inner(_, _)
\* for j in xrange(i, 0, -1), from j down.
insertion_inner(data, j) ==
  IF j <= 0 THEN data
  ELSE IF Lt(data[j + 1], data[j])
    THEN insertion_inner(Swap(data, j - 1, j), j - 1)
    ELSE insertion_inner(data, j - 1)

RECURSIVE insertion_outer(_, _)
insertion_outer(data, i) ==
  IF i >= Len(data) THEN data ELSE insertion_outer(insertion_inner(data, i), i + 1)

InsertionSorter(data) == insertion_outer(data, 1)

RECURSIVE merge_loop(_, _, _, _, _, _)
\* The three while loops of merge: temp at their end.
merge_loop(data, li, left_end, ri, right_end, temp) ==
  IF li <= left_end /\ ri <= right_end
    THEN IF Lt(data[li + 1], data[ri + 1])
           THEN merge_loop(data, li + 1, left_end, ri, right_end, Append(temp, data[li + 1]))
           ELSE merge_loop(data, li, left_end, ri + 1, right_end, Append(temp, data[ri + 1]))
  ELSE IF li <= left_end
    THEN merge_loop(data, li + 1, left_end, ri, right_end, Append(temp, data[li + 1]))
  ELSE IF ri <= right_end
    THEN merge_loop(data, li, left_end, ri + 1, right_end, Append(temp, data[ri + 1]))
  ELSE temp

merge(data, lft, rgt, right_end) ==
  LET temp == merge_loop(data, lft, rgt - 1, rgt, right_end, <<>>)
  IN [k \in 1..Len(data) |->
        IF k - 1 >= lft /\ k - 1 < lft + Len(temp) THEN temp[k - lft] ELSE data[k]]

RECURSIVE merge_sort(_, _, _)
merge_sort(data, lft, rgt) ==
  IF lft < rgt
    THEN LET center == (lft + rgt) \div 2
         IN merge(merge_sort(merge_sort(data, lft, center), center + 1, rgt),
                  lft, center + 1, rgt)
    ELSE data

MergeSorter(data) == merge_sort(data, 0, Len(data) - 1)

RECURSIVE selection_scan(_, _, _, _)
\* for j in xrange(i, len(data)), from j on: best_index at its end.
selection_scan(data, j, best_index, best_val) ==
  IF j >= Len(data) THEN best_index
  ELSE IF Lt(data[j + 1], best_val)
    THEN selection_scan(data, j + 1, j, data[j + 1])
    ELSE selection_scan(data, j + 1, best_index, best_val)

RECURSIVE selection_outer(_, _)
selection_outer(data, i) ==
  IF i >= Len(data) THEN data
  ELSE selection_outer(Swap(data, i, selection_scan(data, i, i, data[i + 1])), i + 1)

SelectionSorter(data) == selection_outer(data, 0)

RECURSIVE partition_LosesPivot(_, _, _, _, _)
\* partition without line 157: the pivot is not written back.
partition_LosesPivot(data, i, hi, pivot, pivot_val) ==
  IF i > hi THEN <<data, pivot>>
  ELSE IF Lt(data[i + 1], pivot_val)
    THEN LET d1 == [data EXCEPT ![pivot + 1] = data[i + 1]]
             d2 == [d1 EXCEPT ![i + 1] = d1[pivot + 2]]
         IN partition_LosesPivot(d2, i + 1, hi, pivot + 1, pivot_val)
    ELSE partition_LosesPivot(data, i + 1, hi, pivot, pivot_val)

RECURSIVE partition(_, _, _, _, _)
\* for i in xrange(lo, hi + 1), from i on: <<data, pivot>> at its end.
partition(data, i, hi, pivot, pivot_val) ==
  IF i > hi THEN <<data, pivot>>
  ELSE IF Lt(data[i + 1], pivot_val)
    THEN LET d1 == [data EXCEPT ![pivot + 1] = data[i + 1]]
             d2 == [d1 EXCEPT ![i + 1] = d1[pivot + 2]]
             d3 == [d2 EXCEPT ![pivot + 2] = pivot_val]
         IN partition(d3, i + 1, hi, pivot + 1, pivot_val)
    ELSE partition(data, i + 1, hi, pivot, pivot_val)

RECURSIVE quick_sort(_, _, _)
\* Every list quick_sort may leave, one for each run of random.randint.
quick_sort(data, lo, hi) ==
  IF lo >= hi THEN {data}
  ELSE UNION { LET pivot_val == data[pivot + 1]
                   d1 == [data EXCEPT ![pivot + 1] = data[lo + 1]]
                   d2 == [d1 EXCEPT ![lo + 1] = pivot_val]
                   part == partition(d2, lo, hi, lo, pivot_val)
               IN UNION { quick_sort(dl, part[2] + 1, hi) :
                            dl \in quick_sort(part[1], lo, part[2] - 1) }
             : pivot \in lo..hi }

QuickSorter(data) == quick_sort(data, 0, Len(data) - 1)

RECURSIVE heap_insert_all(_, _, _)
\* for d in data: heap.insert(d), from index i on, on a Heap() with no free index.
heap_insert_all(data, i, its) ==
  IF i >= Len(data) THEN its
  ELSE heap_insert_all(data, i + 1, insert(its, {}, data[i + 1], len_items(its), FALSE))

RECURSIVE heap_pop_all(_, _, _, _, _)
\* for i in xrange(len(data)): data[i] = heap.pop(), from index i on.
heap_pop_all(data, i, its, inv, cnt) ==
  IF i >= Len(data) THEN data
  ELSE IF peek(its, cnt)[1] # "return" THEN <<peek(its, cnt)>>
  ELSE LET walk == bubble_down(its, inv, 1, FALSE)
       IN heap_pop_all([data EXCEPT ![i + 1] = peek(its, cnt)[2]], i + 1,
                       walk[1], walk[2], cnt - 1)

HeapSorter(data) == heap_pop_all(data, 0, heap_insert_all(data, 0, <<>>), {}, Len(data))

Keys == 1..MaxKey

\* The sequences handed to sort: keys of Keys, each item tagged by its place.
Inputs ==
  UNION { { [i \in 1..n |-> <<ks[i], i>>] : ks \in [1..n -> Keys] } : n \in 0..MaxLen }

SortInit ==
  /\ data_input \in Inputs
  /\ sorter = "none"
  /\ output = <<>>
  /\ root = None
  /\ call = <<"init", 0>>
  /\ prev = None
  /\ ret = None
  /\ items = <<>>
  /\ item_count = 0
  /\ invalid_index_set = {}
  /\ is_max_heap = FALSE
  /\ hcall = <<"init", None>>
  /\ hret = <<"return", None>>
  /\ hprev = <<<<>>, 0, {}, EmptyBag>>
  /\ live = EmptyBag

Sort(name, results) ==
  /\ sorter = "none"
  /\ sorter' = name
  /\ output' \in results
  /\ UNCHANGED <<data_input, bstVars, heapVars>>

SortNext ==
  \/ Sort("bubble", {BubbleSorter(data_input)})
  \/ Sort("insertion", {InsertionSorter(data_input)})
  \/ Sort("selection", {SelectionSorter(data_input)})
  \/ Sort("merge", {MergeSorter(data_input)})
  \/ Sort("quick", QuickSorter(data_input))
  \/ Sort("heap", {HeapSorter(data_input)})

\* Each sorter applied once to any sequence of at most MaxLen items.
SortSpec == SortInit /\ [][SortNext]_vars

(***************************************************************************)
(* Properties                                                              *)
(***************************************************************************)
Mutating == {"insert", "delete", "balance"}

\* C1: starting from an empty BST, is_valid() is true after every insert,
\* delete and balance call, duplicates allowed.
C1_ValidAfterEveryCall == call[1] \in Mutating => is_valid(root)

\* The smallest (min heap) or largest (max heap) items of a bag.
IsTop(item, bag) ==
  /\ BagIn(item, bag)
  /\ \A e \in BagToSet(bag) : is_heap_order(is_max_heap, item, e)

\* C2: every successful pop() returns the smallest (min heap) or largest
\* (max heap) of the items inserted and not yet popped, whichever free
\* index insert reused, and peek() returns that item and changes nothing.
C2_PopReturnsTop ==
  /\ hcall[1] = "pop" /\ hret[1] = "return" => IsTop(hret[2], hprev[4])
  /\ hcall[1] = "peek" /\ hret[1] = "return" =>
       IsTop(hret[2], live) /\ HeapState = hprev

\* C3: find(x) returns a node holding x if some node of the tree holds x,
\* and None only if no node holds x.
C3_FindFindsHeldValues ==
  \A x \in Values :
    /\ Occurrences(root, x) > 0 => find(root, x) # None /\ datum(find(root, x)) = x
    /\ find(root, x) = None => Occurrences(root, x) = 0

Occupied == {i \in 1..Len(items) : i \notin invalid_index_set}

\* C4: every occupied slot i > 1 is in heap order with its parent slot i/2.
C4_HeapOrder ==
  \A i \in Occupied : i > 1 => is_heap_order(is_max_heap, items[i \div 2], items[i])

\* C5: delete(x) on a tree where find(x) succeeds removes one node holding
\* x and no other: the multiset of values of the tree is the one before
\* less one x, duplicates or not, root or not.
C5_DeleteRemovesOneNode ==
  call[1] = "delete" /\ find(prev, call[2]) # None =>
    \A v \in Values :
      Occurrences(root, v) = Occurrences(prev, v) - (IF v = call[2] THEN 1 ELSE 0)

\* delete(x) of a root with two subtrees, x held by another node too.
C5_Witness ==
  /\ call[1] = "delete"
  /\ prev # None
  /\ datum(prev) = call[2]
  /\ left(prev) # None
  /\ right(prev) # None
  /\ Occurrences(prev, call[2]) >= 2
  /\ Size(root) = Size(prev) - 1

Count(data, e) == Cardinality({i \in 1..Len(data) : data[i] = e})

Elements(data) == {data[i] : i \in 1..Len(data)}

IsPermutation(a, b) ==
  /\ Len(a) = Len(b)
  /\ \A e \in Elements(a) \cup Elements(b) : Count(a, e) = Count(b, e)

\* C6: each of the six sorters returns a sequence of the length of its
\* input, a permutation of it, that is_sorted accepts; QuickSorter does so
\* for every choice of pivots.
C6_SortedPermutation ==
  sorter # "none" => IsPermutation(output, data_input) /\ is_sorted(output)

\* QuickSorter on an unsorted input with equal keys, which it reorders.
C6_Witness ==
  /\ sorter = "quick"
  /\ Len(data_input) >= 3
  /\ ~is_sorted(data_input)
  /\ \E i, j \in 1..Len(data_input) : i # j /\ Key(data_input[i]) = Key(data_input[j])
  /\ is_sorted(output)
  /\ output # data_input

\* Items that compare equal keep the order they had in the input (the tag).
IsStable(out) ==
  \A i, j \in 1..Len(out) : i < j /\ Key(out[i]) = Key(out[j]) => out[i][2] < out[j][2]

\* C7: MergeSorter, InsertionSorter and BubbleSorter are stable.
C7_StableSorters == sorter \in {"merge", "insertion", "bubble"} => IsStable(output)

\* C8: find(x) right after insert(x) returns a node holding x, also on an
\* empty tree and when x was already there.
C8_FindAfterInsert ==
  call[1] = "insert" => find(root, call[2]) # None /\ datum(find(root, call[2])) = call[2]

\* insert(x) below the root of a tree that held x already.
C8_Witness ==
  /\ call[1] = "insert"
  /\ Occurrences(prev, call[2]) >= 1
  /\ datum(prev) # call[2]
  /\ Occurrences(root, call[2]) = Occurrences(prev, call[2]) + 1

\* C9: when exactly one node holds x, delete(x) and then find(x) gives None.
C9_DeleteThenFind ==
  call[1] = "delete" /\ Occurrences(prev, call[2]) = 1 => find(root, call[2]) = None

\* delete(x) of the one node holding x, below the root, with two subtrees.
C9_Witness ==
  /\ call[1] = "delete"
  /\ Occurrences(prev, call[2]) = 1
  /\ find(prev, call[2]) # None
  /\ datum(prev) # call[2]
  /\ left(find(prev, call[2])) # None
  /\ right(find(prev, call[2])) # None
  /\ Size(root) = Size(prev) - 1

\* C10: when count() is 0, peek() and pop() raise ValueError and leave
\* items, item_count and invalid_index_set as they were.
C10_EmptyRaises ==
  hcall[1] \in {"peek", "pop"} /\ hprev[2] = 0 =>
    /\ hret[1] = "ValueError"
    /\ items = hprev[1]
    /\ item_count = hprev[2]
    /\ invalid_index_set = hprev[3]

\* pop() on a heap emptied by as many pops as inserts.
C10_Witness ==
  /\ hcall[1] = "pop"
  /\ hprev[2] = 0
  /\ Len(items) >= 2
  /\ hret[1] = "ValueError"

\* C11: delete(x) on a tree in which no node holds x leaves the tree as it
\* was: same root, shape and values, so depth() and is_valid() are the
\* same, and a second delete(x) changes nothing either.
C11_DeleteAbsentIsNoOp ==
  call[1] = "delete" /\ Occurrences(prev, call[2]) = 0 =>
    /\ root = prev
    /\ depth(root) = depth(prev)
    /\ is_valid(root) = is_valid(prev)
    /\ delete_item(root, call[2]) = root

\* delete(x) of a value no node holds, on a tree of three levels.
C11_Witness ==
  /\ call[1] = "delete"
  /\ Occurrences(prev, call[2]) = 0
  /\ depth(prev) >= 3
  /\ root = prev



RECURSIVE IsRightChain(_)
\* The tree left by inserting strictly increasing values into an empty tree.
IsRightChain(node) ==
  \/ node = None
  \/ /\ left(node) = None
     /\ right(node) # None => datum(node) < datum(right(node))
     /\ IsRightChain(right(node))

\* C12: on the right-leaning chain of n >= 3 strictly increasing values
\* (depth n) balance() yields a tree of strictly smaller depth, and on the
\* chain of six values (18..23) the depth goes from 6 to 4.
C12_BalanceShortensChain ==
  call[1] = "balance" /\ IsRightChain(prev) /\ Size(prev) >= 3 =>
    /\ ret # Hang
    /\ depth(prev) = Size(prev)
    /\ depth(root) < depth(prev)
    /\ Size(prev) = 6 => depth(root) = 4

\* balance() on the chain 18, 19, 20, 21, 22, 23.
C12_Witness ==
  /\ call[1] = "balance"
  /\ IsRightChain(prev)
  /\ InOrder(prev) = <<18, 19, 20, 21, 22, 23>>
  /\ depth(prev) = 6
  /\ depth(root) = 4

\* The rotation condition at a node: its subtree depths differ by at least 2
\* and the outside subtree of the heavier child is at least as deep as the
\* inside one.
RotationCondition(node) ==
  /\ node # None
  /\ \/ /\ node_depth(left(node)) >= node_depth(right(node)) + 2
        /\ node_depth(left(left(node))) >= node_depth(right(left(node)))
     \/ /\ node_depth(right(node)) >= node_depth(left(node)) + 2
        /\ node_depth(right(right(node))) >= node_depth(left(right(node)))

RECURSIVE SomeNodeRotates(_)
SomeNodeRotates(node) ==
  /\ node # None
  /\ \/ RotationCondition(node)
     \/ SomeNodeRotates(left(node))
     \/ SomeNodeRotates(right(node))

\* C13: balance() rotates only at a node where the rotation condition
\* holds: a tree with no such node is left as it is, as the tree of
\* inserting 18, 20, 19, which keeps its shape and its depth 3.
C13_NoConditionNoChange ==
  call[1] = "balance" /\ ~SomeNodeRotates(prev) => ret # Hang /\ root = prev

\* balance() on the tree of inserting 18, 20, 19.
C13_Witness ==
  /\ call[1] = "balance"
  /\ prev = <<18, None, <<20, <<19, None, None>>, None>>>>
  /\ root = prev
  /\ depth(root) = 3

\* C14: count() is the number of occupied slots, the indices of items that
\* are not in the free-index set; insert raises that number by one and a
\* successful pop lowers it by one.
C14_CountIsOccupied == count = Cardinality(Occupied)

\* C15: the occupied slots are closed under parent: the parent i/2 of every
\* occupied i > 1 is occupied, and slot 1 is occupied whenever count() > 0.
C15_OccupiedClosedUnderParent ==
  /\ \A i \in Occupied : i > 1 => (i \div 2) \in Occupied
  /\ count > 0 => 1 \in Occupied

\* C16: when the values inserted are pairwise distinct, is_valid() holds
\* after every insert, delete and balance call, and after delete(x) of a
\* node with children every node of its former subtrees is still found.
C16_DistinctStaysValid ==
  /\ call[1] \in Mutating => is_valid(root)
  /\ call[1] = "delete" /\ find(prev, call[2]) # None =>
       \A v \in DistinctValues :
         v # call[2] /\ Occurrences(find(prev, call[2]), v) > 0 =>
           find(root, v) # None /\ datum(find(root, v)) = v

\* delete(x) of a node below the root that has a left and a right subtree,
\* one of them of more than one node.
C16_Witness ==
  /\ call[1] = "delete"
  /\ find(prev, call[2]) # None
  /\ datum(prev) # call[2]
  /\ left(find(prev, call[2])) # None
  /\ right(find(prev, call[2])) # None
  /\ Size(find(prev, call[2])) >= 4
  /\ is_valid(root)

RECURSIVE Subtrees(_)
\* The nodes reachable from a node, each with what hangs below it.
Subtrees(node) ==
  IF node = None THEN {}
  ELSE {node} \cup Subtrees(left(node)) \cup Subtrees(right(node))

\* C17: balance(), rotate_left and rotate_right keep the in-order sequence
\* of values: nothing is lost, doubled or reordered; rotate_left
\* (rotate_right) of a node with no right (left) child returns the node.
C17_InOrderPreserved ==
  /\ call[1] = "balance" => InOrder(root) = InOrder(prev)
  /\ \A n \in Subtrees(root) :
       /\ InOrder(rotate_left(n)) = InOrder(n)
       /\ InOrder(rotate_right(n)) = InOrder(n)
       /\ right(n) = None => rotate_left(n) = n
       /\ left(n) = None => rotate_right(n) = n

\* A balance() that rotated, at a node whose right child had a left subtree
\* to hand over.
C17_Witness ==
  /\ call[1] = "balance"
  /\ root # prev
  /\ InOrder(root) = InOrder(prev)
  /\ \E n \in Subtrees(prev) :
       /\ right(n) # None
       /\ left(right(n)) # None
       /\ rotate_left(n) \in Subtrees(root)

\* C18: balance() terminates: at every node the loop of balance_node stops
\* after finitely many rotations, within MaxPasses passes on these trees.
C18_BalanceTerminates ==
  call[1] = "balance" => ret # Hang /\ balance_node(prev) # Hang

\* A balance() that returned after rotating in a tree of the largest size.
C18_Witness ==
  /\ call[1] = "balance"
  /\ ret # Hang
  /\ Size(prev) = MaxNodes
  /\ root # prev

\* C19: depth() after balance() is at most depth() before it.
C19_BalanceNeverDeepens ==
  call[1] = "balance" => depth(root) <= depth(prev)

\* A balance() that changed the tree and left its depth as it was.
C19_Witness ==
  /\ call[1] = "balance"
  /\ root # prev
  /\ depth(root) = depth(prev)

\* C20: after balance() returns no node satisfies the rotation condition,
\* and a second balance() leaves the tree as it is.
C20_BalanceIdempotent ==
  call[1] = "balance" /\ ret # Hang =>
    /\ ~SomeNodeRotates(root)
    /\ balance_node(root) = root

\* A balance() that rotated and left a node whose subtree depths still
\* differ by 2 or more.
C20_Witness ==
  /\ call[1] = "balance"
  /\ ret # Hang
  /\ root # prev
  /\ \E n \in Subtrees(root) :
       \/ node_depth(left(n)) >= node_depth(right(n)) + 2
       \/ node_depth(right(n)) >= node_depth(left(n)) + 2

====
